---- MODULE Spec2Model ----
(***************************************************************************)
(* Model of veth-util-rs (src/src/lib.rs): provisioning of a veth pair      *)
(* over an rtnetlink connection (add_veth_link / setup_veth_link) and its   *)
(* removal when the VethPair is dropped (impl Drop for VethPair).           *)
(*                                                                          *)
(* Each element of Pairs is one call of add_veth_link together with the     *)
(* life of the VethPair it may return.  The host's interface table is the   *)
(* shared state; the kernel answers one netlink request at a time.          *)
(***************************************************************************)
EXTENDS Naturals, FiniteSets, Sequences, TLC

VARIABLES
    host,        \* the host's interfaces: set of [name, index, up, peer, mac, owner]
    ifindex,     \* the kernel's last allocated interface index
    cfg,         \* cfg[p]: the VethConfig given to add_veth_link
    pc,          \* pc[p]: position of call p in add_veth_link / drop
    req,         \* req[p]: the netlink request of p that awaits its response
    reply,       \* reply[p]: the response not yet consumed by p
    dev1_index,  \* local of setup_veth_link (line 108)
    dev2_index,  \* local of setup_veth_link (line 115)
    mac1,        \* local of setup_veth_link (line 121)
    mac2,        \* local of setup_veth_link (line 134)
    pair,        \* pair[p]: the VethPair returned to the caller, if any
    result,      \* result[p]: how add_veth_link / drop ended
    sent,        \* sent[p]: history, the requests p has issued (netlink requests
                 \* and hardware-address lookups), in order
    gli,         \* gli[p]: history, outcome of p's last get_link_index call
    hostBefore,  \* hostBefore[p]: history, the host when p's call began
    alone,       \* alone[p]: history, nobody but p changed the host since then
    oob,         \* history: the number of out-of-band changes made to the host
    fault        \* fault[p]: history, a step of p failed for a reason outside the
                 \* host's interface table (privilege, resources, a broken socket)

vars == <<host, ifindex, cfg, pc, req, reply, dev1_index, dev2_index, mac1, mac2,
          pair, result, sent, gli, hostBefore, alone, oob, fault>>

----------------------------------------------------------------------------
(* Bounds *)

\* Interface indices range over 1..MaxIndex; the kernel's counter wraps there.
MaxIndex == 6

\* Out-of-band changes of the host that one run may contain.
MaxOob == 1

Pairs == {"p1", "p2"}

----------------------------------------------------------------------------
(* Data types *)

\* VethConfig::new
VethConfig_new(dev1_ifname, dev2_ifname) ==
    [dev1_ifname |-> dev1_ifname, dev2_ifname |-> dev2_ifname]

\* impl Default for VethConfig
VethConfig_default == [dev1_ifname |-> "veth0", dev2_ifname |-> "veth1"]

\* The configurations a caller passes in this model: the default, one with
\* identical names, one sharing a name with the default, one disjoint from it.
Configs ==
    { VethConfig_default,
      VethConfig_new("veth0", "veth0"),
      VethConfig_new("veth1", "veth2"),
      VethConfig_new("veth2", "veth3") }

\* struct VethLink
VethLink(ifname, index, mac_addr) ==
    [ifname |-> ifname, index |-> index, mac_addr |-> mac_addr]

NoMac == <<"", 0>>

NoLink == VethLink("", 0, NoMac)

\* struct VethPair (the rtnetlink handle, join handle and runtime carry no
\* state of their own here: the connection is the req/reply slot of p)
VethPair(dev1, dev2) == [alive |-> TRUE, dev1 |-> dev1, dev2 |-> dev2]

NoPair == [alive |-> FALSE, dev1 |-> NoLink, dev2 |-> NoLink]

\* VethPair::dev1, VethPair::dev2, VethLink::ifname/index/mac_addr
dev1(vp) == vp.dev1
dev2(vp) == vp.dev2
ifname(l) == l.ifname
index(l) == l.index
mac_addr(l) == l.mac_addr

----------------------------------------------------------------------------
(* The host's interface table, as the kernel keeps it *)

\* The hardware address the kernel gives a new interface: one per interface,
\* here named after the index it is created with.
HwAddr(k) == <<"02:00:00:00:00", k>>

Lo == [name |-> "lo", index |-> 1, up |-> TRUE, peer |-> 0,
       mac |-> <<"00:00:00:00:00", 0>>, owner |-> "host"]

Indices == 1..MaxIndex

ByName(h, n) == {i \in h : i.name = n}
ByIndex(h, k) == {i \in h : i.index = k}
NameInUse(h, n) == ByName(h, n) # {}
IndexInUse(h, k) == ByIndex(h, k) # {}

\* The kernel's index allocation: the next index after `last` that no
\* interface uses, wrapping from MaxIndex to 1; 0 when every index is taken.
RECURSIVE NextFree(_, _, _)
NextFree(h, last, tries) ==
    IF tries = 0 THEN 0
    ELSE LET k == IF last >= MaxIndex THEN 1 ELSE last + 1
         IN  IF IndexInUse(h, k) THEN NextFree(h, k, tries - 1) ELSE k

NewIndex(h, last) == NextFree(h, last, MaxIndex)

\* Requests and responses on the rtnetlink connection
NoReq == [op |-> "none", name |-> "", peer |-> "", index |-> 0]
AddReq(n, m) == [op |-> "add", name |-> n, peer |-> m, index |-> 0]
GetReq(n) == [op |-> "get", name |-> n, peer |-> "", index |-> 0]
SetReq(k) == [op |-> "set", name |-> "", peer |-> "", index |-> k]
DelReq(k) == [op |-> "del", name |-> "", peer |-> "", index |-> k]
\* a hardware-address lookup by name (not sent on the connection)
MacReq(n) == [op |-> "mac", name |-> n, peer |-> "", index |-> 0]

NoReply == [kind |-> "none", val |-> 0, found |-> FALSE]
\* Ok(()) / Ok(Some(message with header.index = v))
OkReply(v) == [kind |-> "ok", val |-> v, found |-> TRUE]
\* the response stream ends without a message: try_next gives Ok(None)
EmptyReply == [kind |-> "empty", val |-> 0, found |-> FALSE]
\* a netlink error message: Err(e); `found` records whether the host had
\* what the request named when it was answered
ErrReply(f) == [kind |-> "err", val |-> 0, found |-> f]

----------------------------------------------------------------------------
(* Initial state: no call has begun; the host has only its loopback *)

NoResult == [kind |-> "none", step |-> ""]
Ok == [kind |-> "Ok", step |-> ""]
\* an anyhow error returned to the caller, raised by `step`
Err(step) == [kind |-> "Err", step |-> step]
\* a panic (expect on an Err or a None), raised by `step`
Panic(step) == [kind |-> "panic", step |-> step]

NoGli == [out |-> "none", found |-> FALSE]

Init ==
    /\ host = {Lo}
    /\ ifindex = 1
    /\ cfg \in [Pairs -> Configs]
    /\ pc = [p \in Pairs |-> "start"]
    /\ req = [p \in Pairs |-> NoReq]
    /\ reply = [p \in Pairs |-> NoReply]
    /\ dev1_index = [p \in Pairs |-> 0]
    /\ dev2_index = [p \in Pairs |-> 0]
    /\ mac1 = [p \in Pairs |-> NoMac]
    /\ mac2 = [p \in Pairs |-> NoMac]
    /\ pair = [p \in Pairs |-> NoPair]
    /\ result = [p \in Pairs |-> NoResult]
    /\ sent = [p \in Pairs |-> <<>>]
    /\ gli = [p \in Pairs |-> NoGli]
    /\ hostBefore = [p \in Pairs |-> {Lo}]
    /\ alone = [p \in Pairs |-> TRUE]
    /\ oob = 0
    /\ fault = [p \in Pairs |-> FALSE]

locals == <<dev1_index, dev2_index, mac1, mac2>>
hist == <<hostBefore, alone, oob, fault>>

\* p issues request r on its connection and awaits the response at `next`
Issue(p, r, next) ==
    /\ req' = [req EXCEPT ![p] = r]
    /\ sent' = [sent EXCEPT ![p] = Append(@, r)]
    /\ pc' = [pc EXCEPT ![p] = next]

\* p's call ends at position `at` with result `res`
End(p, at, res) ==
    /\ pc' = [pc EXCEPT ![p] = at]
    /\ result' = [result EXCEPT ![p] = res]

\* p consumes the response it awaited
Consume(p) == reply' = [reply EXCEPT ![p] = NoReply]

\* a change of the host made by `who`: every other call is no longer alone
Touched(who) == alone' = [q \in Pairs |-> IF q = who THEN alone[q] ELSE FALSE]

----------------------------------------------------------------------------
(* The kernel's side of the rtnetlink connection: one action per request   *)
(* kind.  Each may also fail for a reason outside the interface table      *)
(* (privilege, a broken socket): `fault`.                                  *)

Answer(p, r) ==
    /\ req' = [req EXCEPT ![p] = NoReq]
    /\ reply' = [reply EXCEPT ![p] = r]

Refuse(p, f) ==
    /\ Answer(p, ErrReply(f))
    /\ fault' = [fault EXCEPT ![p] = TRUE]
    /\ UNCHANGED <<host, ifindex, alone>>

\* RTM_NEWLINK for a veth: both names must be free and distinct
CanAdd(h, last, n, m) ==
    /\ n # m
    /\ ~NameInUse(h, n)
    /\ ~NameInUse(h, m)
    /\ NewIndex(h, last) # 0
    /\ NextFree(h, NewIndex(h, last), MaxIndex - 1) # 0

\* the peer is registered first, then the device; both start down
AddedLinks(h, last, n, m, who) ==
    LET kp == NewIndex(h, last)
        kd == NextFree(h, kp, MaxIndex - 1)
    IN  { [name |-> m, index |-> kp, up |-> FALSE, peer |-> kd, mac |-> HwAddr(kp), owner |-> who],
          [name |-> n, index |-> kd, up |-> FALSE, peer |-> kp, mac |-> HwAddr(kd), owner |-> who] }

KernelAdd(p) ==
    /\ req[p].op = "add"
    /\ \/ /\ CanAdd(host, ifindex, req[p].name, req[p].peer)
          /\ host' = host \cup AddedLinks(host, ifindex, req[p].name, req[p].peer, p)
          /\ ifindex' = NextFree(host, NewIndex(host, ifindex), MaxIndex - 1)
          /\ Answer(p, OkReply(0))
          /\ Touched(p)
          /\ UNCHANGED fault
       \/ /\ ~CanAdd(host, ifindex, req[p].name, req[p].peer)
          /\ Answer(p, ErrReply(FALSE))
          /\ UNCHANGED <<host, ifindex, alone, fault>>
       \/ Refuse(p, FALSE)
    /\ UNCHANGED <<cfg, pc, locals, pair, result, sent, gli, hostBefore, oob>>

\* RTM_GETLINK with a name filter
KernelGet(p) ==
    /\ req[p].op = "get"
    /\ \/ \E i \in ByName(host, req[p].name) :
             /\ Answer(p, OkReply(i.index))
             /\ UNCHANGED fault
       \/ /\ ~NameInUse(host, req[p].name)
          /\ \/ Answer(p, ErrReply(FALSE))
             \/ Answer(p, EmptyReply)
          /\ UNCHANGED fault
       \/ Refuse(p, NameInUse(host, req[p].name))
    /\ UNCHANGED <<host, ifindex, alone>>
    /\ UNCHANGED <<cfg, pc, locals, pair, result, sent, gli, hostBefore, oob>>

\* RTM_SETLINK with IFF_UP
KernelSet(p) ==
    /\ req[p].op = "set"
    /\ \/ /\ IndexInUse(host, req[p].index)
          /\ host' = {IF i.index = req[p].index THEN [i EXCEPT !.up = TRUE] ELSE i : i \in host}
          /\ Answer(p, OkReply(0))
          /\ Touched(p)
          /\ UNCHANGED <<ifindex, fault>>
       \/ /\ ~IndexInUse(host, req[p].index)
          /\ Answer(p, ErrReply(FALSE))
          /\ UNCHANGED <<host, ifindex, alone, fault>>
       \/ Refuse(p, IndexInUse(host, req[p].index))
    /\ UNCHANGED <<cfg, pc, locals, pair, result, sent, gli, hostBefore, oob>>

\* removing one end of a veth removes its peer with it
WithoutLink(h, k) ==
    {i \in h : i.index # k /\ \A j \in ByIndex(h, k) : i.index # j.peer}

\* RTM_DELLINK
KernelDel(p) ==
    /\ req[p].op = "del"
    /\ \/ /\ IndexInUse(host, req[p].index)
          /\ host' = WithoutLink(host, req[p].index)
          /\ Answer(p, OkReply(0))
          /\ Touched(p)
          /\ UNCHANGED <<ifindex, fault>>
       \/ /\ ~IndexInUse(host, req[p].index)
          /\ Answer(p, ErrReply(FALSE))
          /\ UNCHANGED <<host, ifindex, alone, fault>>
       \/ Refuse(p, IndexInUse(host, req[p].index))
    /\ UNCHANGED <<cfg, pc, locals, pair, result, sent, gli, hostBefore, oob>>

\* Changes made to the host by someone other than this program
OobDelete ==
    /\ oob < MaxOob
    /\ \E i \in host :
          /\ i.owner # "host"
          /\ host' = WithoutLink(host, i.index)
    /\ oob' = oob + 1
    /\ alone' = [q \in Pairs |-> FALSE]
    /\ UNCHANGED <<ifindex, cfg, pc, req, reply, locals, pair, result, sent, gli,
                   hostBefore, fault>>

OobDown ==
    /\ oob < MaxOob
    /\ \E i \in host :
          /\ i.owner # "host"
          /\ i.up
          /\ host' = (host \ {i}) \cup {[i EXCEPT !.up = FALSE]}
    /\ oob' = oob + 1
    /\ alone' = [q \in Pairs |-> FALSE]
    /\ UNCHANGED <<ifindex, cfg, pc, req, reply, locals, pair, result, sent, gli,
                   hostBefore, fault>>

----------------------------------------------------------------------------
(* add_veth_link / setup_veth_link, one action per step between two awaits *)

kernel == <<host, ifindex>>

\* add_veth_link, line 163: Runtime::new().expect(..)
NewRuntime(p) ==
    /\ pc[p] = "start"
    /\ \/ /\ pc' = [pc EXCEPT ![p] = "rt"]
          /\ hostBefore' = [hostBefore EXCEPT ![p] = host]
          /\ alone' = [alone EXCEPT ![p] = TRUE]
          /\ UNCHANGED <<result, fault>>
       \/ /\ End(p, "Panicked", Panic("runtime"))
          /\ fault' = [fault EXCEPT ![p] = TRUE]
          /\ UNCHANGED <<hostBefore, alone>>
    /\ UNCHANGED <<kernel, cfg, req, reply, locals, pair, sent, gli, oob>>

\* setup_veth_link, lines 98-99: new_connection().expect(..), spawn
NewConnection(p) ==
    /\ pc[p] = "rt"
    /\ \/ /\ pc' = [pc EXCEPT ![p] = "add"]
          /\ UNCHANGED <<result, fault>>
       \/ /\ End(p, "Panicked", Panic("connection"))
          /\ fault' = [fault EXCEPT ![p] = TRUE]
    /\ UNCHANGED <<kernel, cfg, req, reply, locals, pair, sent, gli, hostBefore, alone, oob>>

\* lines 101-105: link().add().veth(dev1_ifname, dev2_ifname).execute()
SendAdd(p) ==
    /\ pc[p] = "add"
    /\ Issue(p, AddReq(cfg[p].dev1_ifname, cfg[p].dev2_ifname), "add_wait")
    /\ UNCHANGED <<kernel, cfg, reply, locals, pair, result, gli, hist>>

\* Mutant of RecvAdd: the result of the create request is discarded
\* (`.await.ok()` in place of `.await?`).
RecvAdd_ignore(p) ==
    /\ pc[p] = "add_wait"
    /\ reply[p] # NoReply
    /\ Consume(p)
    /\ pc' = [pc EXCEPT ![p] = "get1"]
    /\ UNCHANGED <<kernel, cfg, req, locals, pair, result, sent, gli, hist>>

\* line 106: .await?
RecvAdd(p) ==
    /\ pc[p] = "add_wait"
    /\ reply[p] # NoReply
    /\ Consume(p)
    /\ IF reply[p].kind = "ok"
         THEN pc' = [pc EXCEPT ![p] = "get1"] /\ UNCHANGED result
         ELSE End(p, "Failed", Err("create"))
    /\ UNCHANGED <<kernel, cfg, req, locals, pair, sent, gli, hist>>

\* get_link_index, lines 81-85: link().get().set_name_filter(name).execute()
get_link_index_request(name) == GetReq(name)

\* get_link_index, lines 86-90: try_next().await? .expect(..) .header.index
get_link_index_outcome(r) ==
    IF r.kind = "err" THEN "Err"
    ELSE IF r.kind = "empty" THEN "panic"
    ELSE "Ok"

GliOf(r) == [out |-> get_link_index_outcome(r), found |-> r.found]

\* Mutant of SendGet1: the lookup names the default "veth0", not the
\* configured name.
SendGet1_default(p) ==
    /\ pc[p] = "get1"
    /\ Issue(p, get_link_index_request(VethConfig_default.dev1_ifname), "get1_wait")
    /\ UNCHANGED <<kernel, cfg, reply, locals, pair, result, gli, hist>>

\* line 108: get_link_index(&link_handle, &dev1_ifname)
SendGet1(p) ==
    /\ pc[p] = "get1"
    /\ Issue(p, get_link_index_request(cfg[p].dev1_ifname), "get1_wait")
    /\ UNCHANGED <<kernel, cfg, reply, locals, pair, result, gli, hist>>

\* lines 108-114: .await.expect("Failed to retrieve index ...")
RecvGet1(p) ==
    /\ pc[p] = "get1_wait"
    /\ reply[p] # NoReply
    /\ Consume(p)
    /\ gli' = [gli EXCEPT ![p] = GliOf(reply[p])]
    /\ IF get_link_index_outcome(reply[p]) = "Ok"
         THEN /\ dev1_index' = [dev1_index EXCEPT ![p] = reply[p].val]
              /\ pc' = [pc EXCEPT ![p] = "get2"]
              /\ UNCHANGED result
         ELSE /\ End(p, "Panicked", Panic("index1"))
              /\ UNCHANGED dev1_index
    /\ UNCHANGED <<kernel, cfg, req, dev2_index, mac1, mac2, pair, sent, hist>>

\* Mutant of SendGet2: the second lookup names dev1_ifname again.
SendGet2_dev1(p) ==
    /\ pc[p] = "get2"
    /\ Issue(p, get_link_index_request(cfg[p].dev1_ifname), "get2_wait")
    /\ UNCHANGED <<kernel, cfg, reply, locals, pair, result, gli, hist>>

\* line 115: get_link_index(&link_handle, &dev2_ifname)
SendGet2(p) ==
    /\ pc[p] = "get2"
    /\ Issue(p, get_link_index_request(cfg[p].dev2_ifname), "get2_wait")
    /\ UNCHANGED <<kernel, cfg, reply, locals, pair, result, gli, hist>>

\* line 115: .await?
RecvGet2(p) ==
    /\ pc[p] = "get2_wait"
    /\ reply[p] # NoReply
    /\ Consume(p)
    /\ gli' = [gli EXCEPT ![p] = GliOf(reply[p])]
    /\ CASE get_link_index_outcome(reply[p]) = "Ok" ->
              /\ dev2_index' = [dev2_index EXCEPT ![p] = reply[p].val]
              /\ pc' = [pc EXCEPT ![p] = "up1"]
              /\ UNCHANGED result
         [] get_link_index_outcome(reply[p]) = "Err" ->
              /\ End(p, "Failed", Err("index2"))
              /\ UNCHANGED dev2_index
         [] OTHER ->
              /\ End(p, "Panicked", Panic("index2"))
              /\ UNCHANGED dev2_index
    /\ UNCHANGED <<kernel, cfg, req, dev1_index, mac1, mac2, pair, sent, hist>>

\* set_link_up, line 94: link().set(index).up().execute()
set_link_up_request(k) == SetReq(k)

\* line 117: set_link_up(&link_handle, dev1_index)
SendUp1(p) ==
    /\ pc[p] = "up1"
    /\ Issue(p, set_link_up_request(dev1_index[p]), "up1_wait")
    /\ UNCHANGED <<kernel, cfg, reply, locals, pair, result, gli, hist>>

\* Mutant of RecvUp1: a failed activation is tried again.
RecvUp1_retry(p) ==
    /\ pc[p] = "up1_wait"
    /\ reply[p] # NoReply
    /\ Consume(p)
    /\ IF reply[p].kind = "ok"
         THEN pc' = [pc EXCEPT ![p] = "up2"]
         ELSE pc' = [pc EXCEPT ![p] = "up1"]
    /\ UNCHANGED <<kernel, cfg, req, locals, pair, result, sent, gli, hist>>

\* Mutant of RecvUp1: the result of the first activation is discarded.
RecvUp1_ignore(p) ==
    /\ pc[p] = "up1_wait"
    /\ reply[p] # NoReply
    /\ Consume(p)
    /\ pc' = [pc EXCEPT ![p] = "up2"]
    /\ UNCHANGED <<kernel, cfg, req, locals, pair, result, sent, gli, hist>>

\* line 117: .await?
RecvUp1(p) ==
    /\ pc[p] = "up1_wait"
    /\ reply[p] # NoReply
    /\ Consume(p)
    /\ IF reply[p].kind = "ok"
         THEN pc' = [pc EXCEPT ![p] = "up2"] /\ UNCHANGED result
         ELSE End(p, "Failed", Err("up1"))
    /\ UNCHANGED <<kernel, cfg, req, locals, pair, sent, gli, hist>>

\* Mutant of SendUp2: the second activation names dev1_index again.
SendUp2_dev1(p) ==
    /\ pc[p] = "up2"
    /\ Issue(p, set_link_up_request(dev1_index[p]), "up2_wait")
    /\ UNCHANGED <<kernel, cfg, reply, locals, pair, result, gli, hist>>

\* line 118: set_link_up(&link_handle, dev2_index)
SendUp2(p) ==
    /\ pc[p] = "up2"
    /\ Issue(p, set_link_up_request(dev2_index[p]), "up2_wait")
    /\ UNCHANGED <<kernel, cfg, reply, locals, pair, result, gli, hist>>

\* Mutant of RecvUp2: the wait for the response is given up (a timeout):
\* without a response the call returns an error.
RecvUp2_timeout(p) ==
    /\ pc[p] = "up2_wait"
    /\ Consume(p)
    /\ IF reply[p].kind = "ok"
         THEN pc' = [pc EXCEPT ![p] = "mac1"] /\ UNCHANGED result
         ELSE End(p, "Failed", Err("up2"))
    /\ UNCHANGED <<kernel, cfg, req, locals, pair, sent, gli, hist>>

\* line 118: .await?
RecvUp2(p) ==
    /\ pc[p] = "up2_wait"
    /\ reply[p] # NoReply
    /\ Consume(p)
    /\ IF reply[p].kind = "ok"
         THEN pc' = [pc EXCEPT ![p] = "mac1"] /\ UNCHANGED result
         ELSE End(p, "Failed", Err("up2"))
    /\ UNCHANGED <<kernel, cfg, req, locals, pair, sent, gli, hist>>

\* mac_address_by_name(name): Ok(Some(mac)) for an interface of that name,
\* Ok(None) when there is none; Err is the lookup itself failing
mac_address_by_name(h, name) ==
    IF NameInUse(h, name)
      THEN {[kind |-> "some", mac |-> i.mac] : i \in ByName(h, name)}
      ELSE {[kind |-> "none", mac |-> NoMac]}

\* Mutant of Mac1: a failed lookup rolls the pair back with a deletion
\* request before the error is returned.
Mac1_rollback(p) ==
    /\ pc[p] = "mac1"
    /\ \/ \E r \in mac_address_by_name(host, cfg[p].dev1_ifname) :
             /\ IF r.kind = "some"
                  THEN /\ mac1' = [mac1 EXCEPT ![p] = r.mac]
                       /\ pc' = [pc EXCEPT ![p] = "mac2"]
                       /\ sent' = [sent EXCEPT ![p] = Append(@, MacReq(cfg[p].dev1_ifname))]
                       /\ UNCHANGED <<result, req>>
                  ELSE /\ End(p, "Failed", Err("mac1"))
                       /\ req' = [req EXCEPT ![p] = DelReq(dev1_index[p])]
                       /\ sent' = [sent EXCEPT ![p] =
                                     @ \o <<MacReq(cfg[p].dev1_ifname), DelReq(dev1_index[p])>>]
                       /\ UNCHANGED mac1
             /\ UNCHANGED fault
       \/ /\ End(p, "Failed", Err("mac1"))
          /\ req' = [req EXCEPT ![p] = DelReq(dev1_index[p])]
          /\ sent' = [sent EXCEPT ![p] =
                        @ \o <<MacReq(cfg[p].dev1_ifname), DelReq(dev1_index[p])>>]
          /\ fault' = [fault EXCEPT ![p] = TRUE]
          /\ UNCHANGED mac1
    /\ UNCHANGED <<kernel, cfg, reply, dev1_index, dev2_index, mac2, pair, gli,
                   hostBefore, alone, oob>>

\* lines 121-132: match mac_address_by_name(&dev1_ifname)
Mac1(p) ==
    /\ pc[p] = "mac1"
    /\ sent' = [sent EXCEPT ![p] = Append(@, MacReq(cfg[p].dev1_ifname))]
    /\ \/ \E r \in mac_address_by_name(host, cfg[p].dev1_ifname) :
             /\ IF r.kind = "some"
                  THEN /\ mac1' = [mac1 EXCEPT ![p] = r.mac]
                       /\ pc' = [pc EXCEPT ![p] = "mac2"]
                       /\ UNCHANGED result
                  ELSE /\ End(p, "Failed", Err("mac1"))
                       /\ UNCHANGED mac1
             /\ UNCHANGED fault
       \/ /\ End(p, "Failed", Err("mac1"))
          /\ fault' = [fault EXCEPT ![p] = TRUE]
          /\ UNCHANGED mac1
    /\ UNCHANGED <<kernel, cfg, req, reply, dev1_index, dev2_index, mac2, pair, gli,
                   hostBefore, alone, oob>>

\* lines 134-145: match mac_address_by_name(&dev2_ifname)
Mac2(p) ==
    /\ pc[p] = "mac2"
    /\ sent' = [sent EXCEPT ![p] = Append(@, MacReq(cfg[p].dev2_ifname))]
    /\ \/ \E r \in mac_address_by_name(host, cfg[p].dev2_ifname) :
             /\ IF r.kind = "some"
                  THEN /\ mac2' = [mac2 EXCEPT ![p] = r.mac]
                       /\ pc' = [pc EXCEPT ![p] = "build"]
                       /\ UNCHANGED result
                  ELSE /\ End(p, "Failed", Err("mac2"))
                       /\ UNCHANGED mac2
             /\ UNCHANGED fault
       \/ /\ End(p, "Failed", Err("mac2"))
          /\ fault' = [fault EXCEPT ![p] = TRUE]
          /\ UNCHANGED mac2
    /\ UNCHANGED <<kernel, cfg, req, reply, dev1_index, dev2_index, mac1, pair, gli,
                   hostBefore, alone, oob>>

\* Mutant of BuiltPair: the two names are exchanged.
BuiltPair_swapped(c, i1, i2, m1, m2) ==
    VethPair(VethLink(c.dev2_ifname, i1, m1), VethLink(c.dev1_ifname, i2, m2))

\* lines 147-159 and 169: the two VethLink values and the VethPair
BuiltPair(c, i1, i2, m1, m2) ==
    VethPair(VethLink(c.dev1_ifname, i1, m1), VethLink(c.dev2_ifname, i2, m2))

\* setup_veth_link returns Ok(..), add_veth_link returns Ok(VethPair {..})
Build(p) ==
    /\ pc[p] = "build"
    /\ pair' = [pair EXCEPT ![p] =
                  BuiltPair(cfg[p], dev1_index[p], dev2_index[p], mac1[p], mac2[p])]
    /\ End(p, "Ready", Ok)
    /\ UNCHANGED <<kernel, cfg, req, reply, locals, sent, gli, hist>>

----------------------------------------------------------------------------
(* impl Drop for VethPair *)

\* delete_link, line 77: link().del(index).execute()
delete_link_request(k) == DelReq(k)

\* Mutant of DropIndex: the index of the second endpoint is handed over.
DropIndex_dev2(vp) == index(dev2(vp))

\* line 71: the index handed to delete_link
DropIndex(vp) == index(dev1(vp))

\* Mutant of Drop: the VethPair goes away without a deletion request.
Drop_forget(p) ==
    /\ pc[p] = "Ready"
    /\ pc' = [pc EXCEPT ![p] = "Deleted"]
    /\ pair' = [pair EXCEPT ![p] = NoPair]
    /\ UNCHANGED <<kernel, cfg, req, reply, locals, result, sent, gli, hist>>

\* Mutant of Drop: the deletion is started but not awaited (the future is
\* spawned instead of driven by block_on), drop returns at once.
Drop_nowait(p) ==
    /\ pc[p] = "Ready"
    /\ Issue(p, delete_link_request(DropIndex(pair[p])), "Deleted")
    /\ pair' = [pair EXCEPT ![p] = NoPair]
    /\ UNCHANGED <<kernel, cfg, reply, locals, result, gli, hist>>

\* Mutant of Drop: the drop looks the first name up again and deletes the
\* index the name has now.
Drop_byname(p) ==
    /\ pc[p] = "Ready"
    /\ LET n == ifname(dev1(pair[p]))
           k == IF NameInUse(host, n)
                  THEN (CHOOSE i \in ByName(host, n) : TRUE).index
                  ELSE 0
       IN  /\ req' = [req EXCEPT ![p] = delete_link_request(k)]
           /\ sent' = [sent EXCEPT ![p] =
                          Append(Append(@, get_link_index_request(n)),
                                 delete_link_request(k))]
    /\ pc' = [pc EXCEPT ![p] = "del_wait"]
    /\ UNCHANGED <<kernel, cfg, reply, locals, pair, result, gli, hist>>

\* lines 69-71: drop begins, delete_link(&self.link_handle, self.dev1.index)
Drop(p) ==
    /\ pc[p] = "Ready"
    /\ Issue(p, delete_link_request(DropIndex(pair[p])), "del_wait")
    /\ UNCHANGED <<kernel, cfg, reply, locals, pair, result, gli, hist>>

\* Mutant of RecvDel: a failed deletion is tried again.
RecvDel_retry(p) ==
    /\ pc[p] = "del_wait"
    /\ reply[p] # NoReply
    /\ Consume(p)
    /\ IF reply[p].kind = "ok"
         THEN /\ pc' = [pc EXCEPT ![p] = "Deleted"]
              /\ pair' = [pair EXCEPT ![p] = NoPair]
         ELSE /\ pc' = [pc EXCEPT ![p] = "Ready"]
              /\ UNCHANGED pair
    /\ UNCHANGED <<kernel, cfg, req, locals, result, sent, gli, hist>>

\* Mutant of RecvDel: the result of the deletion is discarded
\* (`let _ =` in place of `.expect(..)`).
RecvDel_ignore(p) ==
    /\ pc[p] = "del_wait"
    /\ reply[p] # NoReply
    /\ Consume(p)
    /\ pair' = [pair EXCEPT ![p] = NoPair]
    /\ pc' = [pc EXCEPT ![p] = "Deleted"]
    /\ UNCHANGED <<kernel, cfg, req, locals, result, sent, gli, hist>>

\* line 72: .expect("failed to delete link"); the VethPair is gone either way
RecvDel(p) ==
    /\ pc[p] = "del_wait"
    /\ reply[p] # NoReply
    /\ Consume(p)
    /\ pair' = [pair EXCEPT ![p] = NoPair]
    /\ IF reply[p].kind = "ok"
         THEN pc' = [pc EXCEPT ![p] = "Deleted"] /\ UNCHANGED result
         ELSE End(p, "Fatal", Panic("delete"))
    /\ UNCHANGED <<kernel, cfg, req, locals, sent, gli, hist>>

----------------------------------------------------------------------------

Next ==
    \/ \E p \in Pairs : NewRuntime(p)
    \/ \E p \in Pairs : NewConnection(p)
    \/ \E p \in Pairs : SendAdd(p)
    \/ \E p \in Pairs : RecvAdd(p)
    \/ \E p \in Pairs : SendGet1(p)
    \/ \E p \in Pairs : RecvGet1(p)
    \/ \E p \in Pairs : SendGet2(p)
    \/ \E p \in Pairs : RecvGet2(p)
    \/ \E p \in Pairs : SendUp1(p)
    \/ \E p \in Pairs : RecvUp1(p)
    \/ \E p \in Pairs : SendUp2(p)
    \/ \E p \in Pairs : RecvUp2(p)
    \/ \E p \in Pairs : Mac1(p)
    \/ \E p \in Pairs : Mac2(p)
    \/ \E p \in Pairs : Build(p)
    \/ \E p \in Pairs : Drop(p)
    \/ \E p \in Pairs : RecvDel(p)
    \/ \E p \in Pairs : KernelAdd(p)
    \/ \E p \in Pairs : KernelGet(p)
    \/ \E p \in Pairs : KernelSet(p)
    \/ \E p \in Pairs : KernelDel(p)
    \/ OobDelete
    \/ OobDown

Spec == Init /\ [][Next]_vars

----------------------------------------------------------------------------
(* Vocabulary of the properties *)

\* the requests of kind `op` among those p has issued
Issued(p, op) == {k \in 1..Len(sent[p]) : sent[p][k].op = op}

DelCount(p) == Cardinality(Issued(p, "del"))

\* the interfaces on the host that p's create request made
Made(h, p) == {i \in h : i.owner = p}

\* the host has an interface of this name with this index
Has(h, n, k) == \E i \in h : i.name = n /\ i.index = k

\* ... and it is administratively up
HasUp(h, n, k) == \E i \in h : i.name = n /\ i.index = k /\ i.up

\* p's call of add_veth_link ended without a VethPair
Unsuccessful(p) == pc[p] \in {"Failed", "Panicked"}

\* drop has begun (the deletion request is out, or drop has ended)
Dropping(p) == pc[p] \in {"del_wait", "Deleted", "Fatal"}

----------------------------------------------------------------------------
(* C1 *)

\* C1: a VethPair issues no deletion request before its drop and exactly one
\* from its drop on (whether the drop ends normally or in a panic); a call of
\* add_veth_link that returned no VethPair issues none at all.
C1_OneDeletionAtDrop ==
    \A p \in Pairs :
        /\ Dropping(p) => DelCount(p) = 1
        /\ ~Dropping(p) => DelCount(p) = 0
        /\ Dropping(p) => sent[p][Len(sent[p])].op = "del"

\* one pair was dropped with its single deletion request, while the other
\* call failed after its interfaces were made and issued none
C1_Witness ==
    \E p, q \in Pairs :
        /\ pc[p] = "Deleted" /\ DelCount(p) = 1
        /\ Unsuccessful(q) /\ Made(host, q) # {} /\ DelCount(q) = 0

----------------------------------------------------------------------------
(* C2 *)

ProvisionSteps ==
    {"connection", "create", "index1", "index2", "up1", "up2", "mac1", "mac2"}

\* C2 (as claimed): whichever provisioning step fails, add_veth_link ends by
\* returning an error value, never by a panic, and leaves no VethPair.
C2_FailureIsErr ==
    \A p \in Pairs :
        (Unsuccessful(p) /\ result[p].step \in ProvisionSteps)
            => (result[p].kind = "Err" /\ ~pair[p].alive)

----------------------------------------------------------------------------
(* C3 *)

\* C3 (as claimed): get_link_index on a name the host has no interface for
\* returns an error value to its caller.
C3_NotFoundIsErr ==
    \A p \in Pairs :
        (gli[p].out # "none" /\ ~gli[p].found) => gli[p].out = "Err"

----------------------------------------------------------------------------
(* C4 *)

\* C4: while a VethPair is held (add_veth_link returned it, drop has not
\* begun) and no out-of-band change was made, the host has both interfaces
\* the descriptors name and both are administratively up.
C4_BothEndsUp ==
    \A p \in Pairs :
        (pc[p] = "Ready" /\ pair[p].alive /\ oob = 0)
            => /\ \E i \in host : i.name = ifname(dev1(pair[p])) /\ i.up
               /\ \E i \in host : i.name = ifname(dev2(pair[p])) /\ i.up
               /\ ifname(dev1(pair[p])) = cfg[p].dev1_ifname
               /\ ifname(dev2(pair[p])) = cfg[p].dev2_ifname

C4_Witness ==
    \E p \in Pairs : pc[p] = "Ready" /\ pair[p].alive /\ oob = 0

----------------------------------------------------------------------------
(* C5 *)

\* C5: after add_veth_link returned a VethPair both configured names resolve
\* on the host (no out-of-band change made); after drop has returned, none of
\* the interfaces the pair made is left, and when nobody else changed the
\* host meanwhile, neither name resolves and the host's interface table is
\* the one from before the call.
C5_RoundTrip ==
    \A p \in Pairs :
        /\ (pc[p] = "Ready" /\ oob = 0)
              => /\ NameInUse(host, cfg[p].dev1_ifname)
                 /\ NameInUse(host, cfg[p].dev2_ifname)
        /\ pc[p] = "Deleted"
              => /\ Made(host, p) = {}
                 /\ alone[p] => /\ ~NameInUse(host, cfg[p].dev1_ifname)
                                /\ ~NameInUse(host, cfg[p].dev2_ifname)
                                /\ host = hostBefore[p]

C5_Witness ==
    \E p \in Pairs :
        /\ pc[p] = "Deleted"
        /\ alone[p]
        /\ host = hostBefore[p]
        /\ ~NameInUse(host, cfg[p].dev1_ifname)

----------------------------------------------------------------------------
(* C6 *)

\* the configuration's names are distinct and no interface of h has either
FreeNames(h, c) ==
    /\ c.dev1_ifname # c.dev2_ifname
    /\ ~NameInUse(h, c.dev1_ifname)
    /\ ~NameInUse(h, c.dev2_ifname)

\* the kernel answers p's create request in this step
CreateAnswered(p) == req[p].op = "add" /\ req'[p] = NoReq

\* C6: a VethPair returned by add_veth_link carries the configured names in
\* order (veth0 and veth1 for the default configuration); a create request
\* for two distinct names that no interface has succeeds and makes both
\* interfaces, unless the request fails for a reason outside the interface
\* table; and a call in which nothing failed for such a reason, on a host
\* nobody changed out-of-band, can only fail at the create request.
C6_ConfiguredNames ==
    /\ [](\A p \in Pairs :
            /\ pc[p] = "Ready"
                 => /\ ifname(dev1(pair[p])) = cfg[p].dev1_ifname
                    /\ ifname(dev2(pair[p])) = cfg[p].dev2_ifname
            /\ (pc[p] = "Ready" /\ cfg[p] = VethConfig_default)
                 => /\ ifname(dev1(pair[p])) = "veth0"
                    /\ ifname(dev2(pair[p])) = "veth1"
            /\ (Unsuccessful(p) /\ ~fault[p] /\ oob = 0)
                 => result[p] = Err("create"))
    /\ [][\A p \in Pairs :
            (CreateAnswered(p) /\ FreeNames(host, cfg[p]) /\ ~fault'[p])
                => /\ reply'[p].kind = "ok"
                   /\ NameInUse(host', cfg[p].dev1_ifname)
                   /\ NameInUse(host', cfg[p].dev2_ifname)]_vars

\* a pair with the default names was returned while the other call's pair,
\* with other names, exists too
C6_Witness ==
    \E p, q \in Pairs :
        /\ p # q
        /\ pc[p] = "Ready" /\ cfg[p] = VethConfig_default
        /\ ifname(dev1(pair[p])) = "veth0" /\ ifname(dev2(pair[p])) = "veth1"
        /\ pc[q] = "Ready"

----------------------------------------------------------------------------
(* C7 *)

\* C7: in a VethPair returned by add_veth_link (no out-of-band change made)
\* both stored indices are non-zero, they differ, and each is the index the
\* host has for the interface of the descriptor's name.
C7_Indices ==
    \A p \in Pairs :
        (pc[p] = "Ready" /\ oob = 0)
            => /\ index(dev1(pair[p])) # 0
               /\ index(dev2(pair[p])) # 0
               /\ index(dev1(pair[p])) # index(dev2(pair[p]))
               /\ Has(host, ifname(dev1(pair[p])), index(dev1(pair[p])))
               /\ Has(host, ifname(dev2(pair[p])), index(dev2(pair[p])))

C7_Witness ==
    \E p \in Pairs :
        /\ pc[p] = "Ready" /\ oob = 0
        /\ index(dev1(pair[p])) > index(dev2(pair[p]))
        /\ index(dev2(pair[p])) > 1

----------------------------------------------------------------------------
(* C8 *)

SameNames(c) == c.dev1_ifname = c.dev2_ifname

\* C8: a call whose configuration has identical names never gets past its
\* create request: once that request is answered the call has returned the
\* error of the create step, no interface made by the call is ever on the
\* host, and when nobody else changed the host meanwhile the interface table
\* is the one from before the call.
C8_IdenticalNames ==
    \A p \in Pairs :
        SameNames(cfg[p])
            => /\ pc[p] \in {"start", "rt", "add", "add_wait", "Failed", "Panicked"}
               /\ (sent[p] # <<>> /\ pc[p] # "add_wait")
                     => (pc[p] = "Failed" /\ result[p] = Err("create"))
               /\ Len(sent[p]) <= 1
               /\ Made(host, p) = {}
               /\ (pc[p] = "Failed" /\ alone[p]) => host = hostBefore[p]

\* the create request was refused for the names alone
C8_Witness ==
    \E p \in Pairs :
        /\ SameNames(cfg[p])
        /\ pc[p] = "Failed"
        /\ ~fault[p]
        /\ result[p] = Err("create")

----------------------------------------------------------------------------
(* C9 *)

\* q's call began when both interfaces of p, of the same configuration, were
\* made and up, and the pair p is held now
SecondWhileFirstAlive(p, q) ==
    /\ p # q
    /\ cfg[p] = cfg[q]
    /\ pc[p] = "Ready"
    /\ pc[q] # "start"
    /\ Made(hostBefore[q], p) # {}
    /\ \A i \in Made(hostBefore[q], p) : i.up

\* C9: a call with the configuration of a pair that is held (no out-of-band
\* change made) never gets past its create request: it ends without a
\* VethPair, it issues no deletion request, and the held pair's interfaces
\* are on the host with their indices, both up.
C9_SecondCallFails ==
    \A p, q \in Pairs :
        (SecondWhileFirstAlive(p, q) /\ oob = 0)
            => /\ pc[q] \in {"rt", "add", "add_wait", "Failed", "Panicked"}
               /\ ~pair[q].alive
               /\ (sent[q] # <<>> /\ pc[q] # "add_wait") => pc[q] = "Failed"
               /\ DelCount(q) = 0
               /\ Issued(q, "set") = {}
               /\ HasUp(host, ifname(dev1(pair[p])), index(dev1(pair[p])))
               /\ HasUp(host, ifname(dev2(pair[p])), index(dev2(pair[p])))
               /\ Made(host, p) = Made(hostBefore[q], p)

\* the second call was refused for the names alone and the first is held
C9_Witness ==
    \E p, q \in Pairs :
        /\ SecondWhileFirstAlive(p, q)
        /\ oob = 0
        /\ pc[q] = "Failed"
        /\ ~fault[q]

----------------------------------------------------------------------------
(* C10 *)

\* C10: when the response to the deletion request is an error, drop ends in
\* a panic and in no other way, with no further request; a drop that panicked
\* stays so, has issued its one deletion request and never issues another.
C10_FailedDeleteIsFatal ==
    /\ [](\A p \in Pairs :
            pc[p] = "Fatal"
                => /\ result[p] = Panic("delete")
                   /\ DelCount(p) = 1
                   /\ req[p] = NoReq)
    /\ [][\A p \in Pairs :
            /\ (pc[p] = "del_wait" /\ reply[p].kind = "err" /\ pc'[p] # pc[p])
                  => (pc'[p] = "Fatal" /\ sent'[p] = sent[p])
            /\ pc'[p] = "Fatal"
                  => (pc[p] = "Fatal" \/ (pc[p] = "del_wait" /\ reply[p].kind = "err"))
            /\ pc[p] = "Fatal" => (pc'[p] = "Fatal" /\ sent'[p] = sent[p])]_vars

\* the pair was removed out-of-band, the deletion was refused for that
C10_Witness ==
    \E p \in Pairs :
        /\ pc[p] = "Fatal"
        /\ oob > 0
        /\ ~fault[p]
        /\ ~IndexInUse(host, sent[p][Len(sent[p])].index)

----------------------------------------------------------------------------
(* C11 *)

\* nothing of p is in flight: no request awaits its response and no
\* response awaits p
Quiet(p) == req[p] = NoReq /\ reply[p] = NoReply

\* C11: when drop has returned normally the response to its deletion request
\* has been received and the interfaces the pair made are gone from the host;
\* when add_veth_link has returned (a VethPair, an error or a panic) every
\* request it issued has been answered and the answer consumed.
C11_Synchronous ==
    \A p \in Pairs :
        /\ pc[p] = "Deleted"
              => /\ Quiet(p)
                 /\ DelCount(p) = 1
                 /\ Made(host, p) = {}
        /\ pc[p] \in {"Ready", "Failed", "Panicked", "Fatal"} => Quiet(p)

\* drop returned; before it the deletion request had been answered
C11_Witness ==
    \E p \in Pairs :
        /\ pc[p] = "Deleted"
        /\ Quiet(p)
        /\ sent[p][Len(sent[p])].op = "del"
        /\ Made(host, p) = {}

----------------------------------------------------------------------------
(* C12 *)

\* the requests of one call of add_veth_link that reaches its end, in order
ProvisionSeq(p) ==
    << AddReq(cfg[p].dev1_ifname, cfg[p].dev2_ifname),
       GetReq(cfg[p].dev1_ifname),
       GetReq(cfg[p].dev2_ifname),
       SetReq(dev1_index[p]),
       SetReq(dev2_index[p]),
       MacReq(cfg[p].dev1_ifname),
       MacReq(cfg[p].dev2_ifname) >>

\* what p issued while provisioning (without the deletion request of drop)
Provisioning(p) ==
    IF Dropping(p) THEN SubSeq(sent[p], 1, Len(sent[p]) - 1) ELSE sent[p]

IsPrefix(a, b) == Len(a) <= Len(b) /\ \A k \in 1..Len(a) : a[k] = b[k]

\* the number of requests issued when the call fails at `step`
StepNo(step) ==
    CASE step = "create" -> 1
      [] step = "index1" -> 2
      [] step = "index2" -> 3
      [] step = "up1" -> 4
      [] step = "up2" -> 5
      [] step = "mac1" -> 6
      [] step = "mac2" -> 7
      [] OTHER -> 0

\* C12: the requests of one add_veth_link call are a prefix of: create, index
\* of A, index of B, set A up, set B up, address of A, address of B; a pair is
\* returned only after all seven; at most one request is outstanding and a
\* new one is issued only when nothing is in flight; a call that failed
\* stopped at the failing step; and (no out-of-band change, before drop) each
\* request was issued with its predecessors' effects in place: the interfaces
\* made, then the indices read, then A up, then B up, then A's address read.
C12_StrictOrder ==
    /\ [](\A p \in Pairs :
            /\ IsPrefix(Provisioning(p), ProvisionSeq(p))
            /\ (pc[p] = "Ready" \/ Dropping(p)) => Provisioning(p) = ProvisionSeq(p)
            /\ Unsuccessful(p) => Len(sent[p]) = StepNo(result[p].step)
            /\ req[p] # NoReq => (reply[p] = NoReply /\ req[p] = sent[p][Len(sent[p])])
            /\ (oob = 0 /\ ~Dropping(p))
                 => /\ Len(sent[p]) >= 2
                         => /\ NameInUse(Made(host, p), cfg[p].dev1_ifname)
                            /\ NameInUse(Made(host, p), cfg[p].dev2_ifname)
                    /\ Len(sent[p]) >= 3
                         => Has(host, cfg[p].dev1_ifname, dev1_index[p])
                    /\ Len(sent[p]) >= 4
                         => Has(host, cfg[p].dev2_ifname, dev2_index[p])
                    /\ Len(sent[p]) >= 5
                         => HasUp(host, cfg[p].dev1_ifname, dev1_index[p])
                    /\ Len(sent[p]) >= 6
                         => HasUp(host, cfg[p].dev2_ifname, dev2_index[p])
                    /\ Len(sent[p]) >= 7 => mac1[p] # NoMac)
    /\ [][\A p \in Pairs : Len(sent'[p]) > Len(sent[p]) => Quiet(p)]_vars

\* the second address lookup is under way after all six predecessors
C12_Witness ==
    \E p \in Pairs :
        /\ pc[p] = "build"
        /\ oob = 0
        /\ sent[p] = ProvisionSeq(p)
        /\ HasUp(host, cfg[p].dev2_ifname, dev2_index[p])

----------------------------------------------------------------------------
(* C13 *)

\* p's call failed after its create request had succeeded
FailedAfterCreate(p) ==
    /\ Unsuccessful(p)
    /\ result[p].step \in {"index1", "index2", "up1", "up2", "mac1", "mac2"}

\* C13: a call that failed at a step after its create request succeeded has
\* issued no deletion request and has nothing in flight; with no out-of-band
\* change both interfaces it made stay on the host; when it failed at the
\* activation of B for a reason of the host's table or the channel, A is up
\* and B is down.
C13_NoCompensation ==
    \A p \in Pairs :
        FailedAfterCreate(p)
            => /\ DelCount(p) = 0
               /\ Quiet(p)
               /\ oob = 0
                    => /\ Cardinality(Made(host, p)) = 2
                       /\ NameInUse(Made(host, p), cfg[p].dev1_ifname)
                       /\ NameInUse(Made(host, p), cfg[p].dev2_ifname)
               /\ (oob = 0 /\ result[p].step = "up2")
                    => /\ HasUp(host, cfg[p].dev1_ifname, dev1_index[p])
                       /\ \E i \in Made(host, p) :
                             i.name = cfg[p].dev2_ifname /\ ~i.up

\* the activation of B failed: the call has ended, A is up, B is down
C13_Witness ==
    \E p \in Pairs :
        /\ FailedAfterCreate(p)
        /\ result[p] = Err("up2")
        /\ oob = 0
        /\ HasUp(host, cfg[p].dev1_ifname, dev1_index[p])
        /\ \E i \in Made(host, p) : i.name = cfg[p].dev2_ifname /\ ~i.up

----------------------------------------------------------------------------
(* C14 *)

\* C14: a call whose create request failed has returned the error of the
\* create step with that one request issued and nothing in flight, no
\* interface made by it is on the host, and when nobody else changed the host
\* meanwhile the interface table is the one from before the call; conversely
\* a call that issued a second request (no out-of-band change, before its
\* drop) had its create request succeed: its interfaces are on the host.
C14_CreateFailureStops ==
    \A p \in Pairs :
        /\ result[p] = Err("create")
              => /\ pc[p] = "Failed"
                 /\ sent[p] = <<AddReq(cfg[p].dev1_ifname, cfg[p].dev2_ifname)>>
                 /\ Quiet(p)
                 /\ ~pair[p].alive
                 /\ Made(host, p) = {}
                 /\ alone[p] => host = hostBefore[p]
        /\ (Len(sent[p]) >= 2 /\ oob = 0 /\ ~Dropping(p))
              => Cardinality(Made(host, p)) = 2

\* the create request was refused for a name in use; the host is as before
C14_Witness ==
    \E p \in Pairs :
        /\ result[p] = Err("create")
        /\ ~fault[p]
        /\ ~SameNames(cfg[p])
        /\ alone[p]
        /\ host = hostBefore[p]
        /\ Len(sent[p]) = 1

----------------------------------------------------------------------------
(* C15 *)

\* the operation of p (add_veth_link, or the drop of its pair) has ended
Ended(p) == pc[p] \in {"Failed", "Panicked", "Fatal", "Deleted"}

\* p consumes a response that reports a failure
FailureReceived(p) ==
    /\ reply[p] # NoReply
    /\ reply[p].kind # "ok"
    /\ reply'[p] = NoReply

\* C15: no request is issued twice by one call and its drop (one create, one
\* index lookup and one activation and one address lookup per endpoint, one
\* deletion); the step that receives a failed response ends the operation
\* without issuing anything; an operation that has ended issues nothing more.
C15_NoRetry ==
    /\ [](\A p \in Pairs :
            /\ \A j, k \in 1..Len(sent[p]) : j # k => sent[p][j] # sent[p][k]
            /\ Cardinality(Issued(p, "add")) <= 1
            /\ Cardinality(Issued(p, "get")) <= 2
            /\ Cardinality(Issued(p, "set")) <= 2
            /\ Cardinality(Issued(p, "mac")) <= 2
            /\ Cardinality(Issued(p, "del")) <= 1)
    /\ [][\A p \in Pairs :
            /\ FailureReceived(p)
                 => /\ pc'[p] \in {"Failed", "Panicked", "Fatal"}
                    /\ sent'[p] = sent[p]
                    /\ req'[p] = NoReq
            /\ Ended(p)
                 => /\ pc'[p] = pc[p]
                    /\ sent'[p] = sent[p]
                    /\ req'[p] = req[p]]_vars

\* a call ended by a failed activation, with each request issued once
C15_Witness ==
    \E p \in Pairs :
        /\ pc[p] = "Failed"
        /\ result[p] = Err("up1")
        /\ Cardinality(Issued(p, "set")) = 1
        /\ Len(sent[p]) = 4

----------------------------------------------------------------------------
(* C16 *)

\* the kernel answers p's deletion request with success in this step
DeleteSucceeds(p) == req[p].op = "del" /\ reply'[p].kind = "ok"

\* C16: the deletion request of a drop carries the index stored in the
\* pair's first descriptor, which is the index read for and set up as
\* endpoint A, and not the index of endpoint B; the step in which the kernel
\* answers it with success takes both interfaces of the pair off the host.
C16_DeleteByFirstIndex ==
    /\ [](\A p \in Pairs :
            /\ pc[p] = "del_wait"
                 => /\ sent[p][Len(sent[p])] = DelReq(index(dev1(pair[p])))
                    /\ sent[p][Len(sent[p])].index # index(dev2(pair[p]))
            /\ Dropping(p)
                 => /\ sent[p][Len(sent[p])] = DelReq(dev1_index[p])
                    /\ sent[p][Len(sent[p])].index # dev2_index[p]
                    /\ sent[p][4] = SetReq(sent[p][Len(sent[p])].index)
                    /\ sent[p][2] = GetReq(cfg[p].dev1_ifname))
    /\ [][\A p \in Pairs :
            DeleteSucceeds(p)
                => /\ Has(host, cfg[p].dev1_ifname, dev1_index[p])
                   /\ Has(host, cfg[p].dev2_ifname, dev2_index[p])
                   /\ ~IndexInUse(host', dev1_index[p])
                   /\ ~IndexInUse(host', dev2_index[p])
                   /\ ~NameInUse(host', cfg[p].dev1_ifname)
                   /\ ~NameInUse(host', cfg[p].dev2_ifname)
                   /\ Made(host', p) = {}
                   /\ Cardinality(host') = Cardinality(host) - 2]_vars

\* the deletion by A's index was answered with success, both names are gone
C16_Witness ==
    \E p \in Pairs :
        /\ pc[p] = "del_wait"
        /\ reply[p].kind = "ok"
        /\ sent[p][Len(sent[p])] = DelReq(index(dev1(pair[p])))
        /\ index(dev1(pair[p])) # index(dev2(pair[p]))
        /\ ~NameInUse(host, cfg[p].dev1_ifname)
        /\ ~NameInUse(host, cfg[p].dev2_ifname)

----------------------------------------------------------------------------
(* C17 *)

NamesOf(c) == {c.dev1_ifname, c.dev2_ifname}

\* the four names of the two configurations are pairwise distinct
PairwiseDistinct(p, q) ==
    /\ ~SameNames(cfg[p])
    /\ ~SameNames(cfg[q])
    /\ NamesOf(cfg[p]) \cap NamesOf(cfg[q]) = {}

\* this step is one of q's: a statement of q's call or drop, or the kernel
\* answering a request of q
StepOf(q) == pc'[q] # pc[q] \/ req'[q] # req[q] \/ reply'[q] # reply[q]

\* C17: for two calls with pairwise distinct names, no step of one changes
\* the existence, index or up/down state of the interfaces the other made;
\* and whatever the other does, a call fails or its drop panics only for a
\* failure of its own channel or an out-of-band change, its pair holds the
\* indices of its own two interfaces, both up, and after its drop both of
\* its names are gone.
C17_Independent ==
    /\ [](\A p, q \in Pairs :
            (p # q /\ PairwiseDistinct(p, q) /\ ~fault[p] /\ oob = 0)
                => /\ ~Unsuccessful(p)
                   /\ pc[p] # "Fatal"
                   /\ pc[p] = "Ready"
                        => /\ HasUp(Made(host, p), ifname(dev1(pair[p])), index(dev1(pair[p])))
                           /\ HasUp(Made(host, p), ifname(dev2(pair[p])), index(dev2(pair[p])))
                   /\ pc[p] = "Deleted"
                        => /\ ~NameInUse(host, cfg[p].dev1_ifname)
                           /\ ~NameInUse(host, cfg[p].dev2_ifname))
    /\ [][\A p, q \in Pairs :
            (p # q /\ PairwiseDistinct(p, q) /\ StepOf(q))
                => Made(host', p) = Made(host, p)]_vars

\* both pairs are held at once, one made while the other was being set up
C17_Witness ==
    \E p, q \in Pairs :
        /\ p # q
        /\ PairwiseDistinct(p, q)
        /\ pc[p] = "Ready" /\ pc[q] = "Ready"
        /\ oob = 0
        /\ index(dev1(pair[p])) < index(dev1(pair[q]))
        /\ Made(hostBefore[q], p) # {}
        /\ \E i \in Made(hostBefore[q], p) : ~i.up

----------------------------------------------------------------------------
(* C18 *)

\* the steps of p's own code once add_veth_link has been entered, and of its
\* drop once it has begun (block_on runs the future to its end)
Proceed(p) ==
    \/ NewConnection(p)
    \/ SendAdd(p) \/ RecvAdd(p)
    \/ SendGet1(p) \/ RecvGet1(p)
    \/ SendGet2(p) \/ RecvGet2(p)
    \/ SendUp1(p) \/ RecvUp1(p)
    \/ SendUp2(p) \/ RecvUp2(p)
    \/ Mac1(p) \/ Mac2(p)
    \/ Build(p)
    \/ RecvDel(p)

\* the kernel answers p's outstanding request
KernelAnswers(p) == KernelAdd(p) \/ KernelGet(p) \/ KernelSet(p) \/ KernelDel(p)

\* The program under a kernel channel that answers every request, with the
\* executor running each future whenever it can proceed.  When a call or a
\* drop begins is the caller's choice: no fairness on NewRuntime and Drop.
FairSpec ==
    /\ Spec
    /\ \A p \in Pairs : WF_vars(Proceed(p))
    /\ \A p \in Pairs : WF_vars(KernelAnswers(p))

Waiting == {"add_wait", "get1_wait", "get2_wait", "up1_wait", "up2_wait", "del_wait"}

Running == {"rt", "add", "get1", "get2", "up1", "up2", "mac1", "mac2", "build"}

\* C18: under a channel that answers every request, from some point on no
\* call of add_veth_link and no drop is under way; a call under way can only
\* go on or end with a VethPair, an error or a panic, and a drop under way can
\* only end returned or panicked, so each one that has begun ends; whenever
\* the operation waits, a request of its own is outstanding or its response
\* is there; whenever it does not wait and has not ended, its next statement
\* can run; and a wait ends only by consuming the response (no timeout or
\* cancellation step).
C18_Terminates ==
    /\ <>[](\A p \in Pairs : pc[p] \notin (Running \cup Waiting))
    /\ [](\A p \in Pairs :
            /\ pc[p] \in Waiting
                 => ((req[p] # NoReq /\ reply[p] = NoReply)
                       \/ (req[p] = NoReq /\ reply[p] # NoReply))
            /\ pc[p] \in Running => ENABLED Proceed(p))
    /\ [][\A p \in Pairs :
            /\ (pc[p] \in Waiting /\ pc'[p] # pc[p])
                 => (reply[p] # NoReply /\ reply'[p] = NoReply)
            /\ pc[p] \in (Running \cup Waiting) \ {"del_wait"}
                 => pc'[p] \in (Running \cup Waiting \cup {"Ready", "Failed", "Panicked"})
                                 \ {"del_wait"}
            /\ pc[p] = "del_wait" => pc'[p] \in {"del_wait", "Deleted", "Fatal"}]_vars

\* a drop has ended after a call that went through all its waits
C18_Witness ==
    \E p, q \in Pairs :
        /\ p # q
        /\ pc[p] = "Deleted"
        /\ Len(sent[p]) = 8
        /\ pc[q] \in {"Failed", "Panicked", "Fatal"}

----------------------------------------------------------------------------
(* C19 *)

\* the interfaces on host h that call p did not make
Others(h, p) == {i \in h : i.owner # p}

\* this step belongs to p's drop: the drop's request, the kernel's answer to
\* it, or the drop consuming the answer
DropStep(p) == pc[p] \in {"Ready", "del_wait"} /\ StepOf(p)

\* C19: if no out-of-band change happened, no step of a pair's drop adds an
\* interface or changes the existence, index or state of an interface the
\* pair did not create, and the only interfaces it takes off the host are the
\* pair's own two; the index in the deletion request is the one the first
\* lookup of the call returned and the pair stored, and the drop issues no
\* lookup by name: the call's two lookups are its only ones.
C19_TeardownFrame ==
    /\ [][\A p \in Pairs :
            (oob = 0 /\ oob' = 0 /\ DropStep(p))
                => /\ Others(host', p) = Others(host, p)
                   /\ host' \subseteq host
                   /\ host \ host' \subseteq
                          {i \in Made(host, p) :
                              i.index \in {dev1_index[p], dev2_index[p]}}
                   /\ Cardinality(host \ host') \in {0, 2}]_vars
    /\ [](\A p \in Pairs :
            Dropping(p)
                => /\ Issued(p, "get") = {2, 3}
                   /\ Issued(p, "del") = {Len(sent[p])}
                   /\ sent[p][Len(sent[p])].index = dev1_index[p]
                   /\ (pair[p] # NoPair
                         => index(dev1(pair[p])) = dev1_index[p]))

\* with no out-of-band change, one pair's drop has taken its two interfaces
\* off the host while the other pair's two interfaces are still there, up
C19_Witness ==
    \E p, q \in Pairs :
        /\ p # q
        /\ oob = 0
        /\ pc[p] = "Deleted"
        /\ Made(host, p) = {}
        /\ pc[q] = "Ready"
        /\ Cardinality(Made(host, q)) = 2
        /\ HasUp(host, cfg[q].dev1_ifname, index(dev1(pair[q])))
        /\ HasUp(host, cfg[q].dev2_ifname, index(dev2(pair[q])))

----------------------------------------------------------------------------
(* C20 *)

\* p's create request succeeded and p's call goes on or has returned its pair
Holding(p) ==
    pc[p] \in {"get1", "get1_wait", "get2", "get2_wait", "up1", "up1_wait",
               "up2", "up2_wait", "mac1", "mac2", "build", "Ready"}

\* two calls with the same two names, no pair dropped yet, no out-of-band
\* change
Racing(p, q) ==
    /\ p # q
    /\ cfg[p] = cfg[q]
    /\ oob = 0
    /\ ~Dropping(p)
    /\ ~Dropping(q)

\* C20: of two calls with the same two names, whatever the interleaving, at
\* most one gets past its create request and so at most one returns a pair;
\* the other never gets past the create step: once it has ended it has
\* returned the error of the create step (or could not open its channel and
\* issued nothing), the create request is the only request it ever issues
\* (no lookup, no set-up, no address query, no deletion), it holds no index,
\* it made no interface, and none of its steps changes the winner's
\* interfaces, which are on the host, up once the winner has returned.
C20_NameRace ==
    /\ [](\A p, q \in Pairs :
            Racing(p, q)
                => /\ ~(Holding(p) /\ Holding(q))
                   /\ ~(pc[p] = "Ready" /\ pc[q] = "Ready")
                   /\ Holding(p)
                        => /\ pc[q] \in {"start", "rt", "add", "add_wait",
                                         "Failed", "Panicked"}
                           /\ pc[q] = "Failed" => result[q] = Err("create")
                           /\ pc[q] = "Panicked" => sent[q] = <<>>
                           /\ IsPrefix(sent[q],
                                  <<AddReq(cfg[q].dev1_ifname, cfg[q].dev2_ifname)>>)
                           /\ Issued(q, "get") = {}
                           /\ Issued(q, "set") = {}
                           /\ Issued(q, "mac") = {}
                           /\ Issued(q, "del") = {}
                           /\ dev1_index[q] = 0
                           /\ dev2_index[q] = 0
                           /\ ~pair[q].alive
                           /\ Made(host, q) = {}
                           /\ Cardinality(Made(host, p)) = 2
                   /\ pc[p] = "Ready"
                        => /\ HasUp(host, cfg[p].dev1_ifname, index(dev1(pair[p])))
                           /\ HasUp(host, cfg[p].dev2_ifname, index(dev2(pair[p]))))
    /\ [][\A p, q \in Pairs :
            (Racing(p, q) /\ Holding(p) /\ StepOf(q))
                => Made(host', p) = Made(host, p)]_vars

\* both calls began while the names were free; one returned its pair and the
\* other, refused for the names alone, returned the error of the create step
C20_Witness ==
    \E p, q \in Pairs :
        /\ Racing(p, q)
        /\ pc[p] = "Ready"
        /\ pc[q] = "Failed"
        /\ result[q] = Err("create")
        /\ ~fault[q]
        /\ Made(hostBefore[p], q) = {}
        /\ Made(hostBefore[q], p) = {}
        /\ FreeNames(hostBefore[q], cfg[q])
        /\ sent[q] = <<AddReq(cfg[q].dev1_ifname, cfg[q].dev2_ifname)>>

====
